---- MODULE Spec2Model ----
(***************************************************************************)
(* Model of StravaBot (src/claude-ai-bot.py): the in-memory stores         *)
(* athlete_tokens / last_checked, the persisted record bot_data.json, the  *)
(* commands set_token / remove_athlete, and the poll cycle                 *)
(* check_activities, which is a coroutine that is suspended at the fetch   *)
(* (get_recent_activities) and at each delivery (post_activity), so that   *)
(* commands may run in between.                                            *)
(*                                                                         *)
(* Time: clock counts sub-second ticks of the wall clock; datetime.now()   *)
(* reads it.  A watermark is kept at tick resolution (isoformat keeps the  *)
(* microseconds), the `after` parameter of a fetch is the watermark        *)
(* truncated to whole seconds (int(...timestamp())), and an activity's     *)
(* startTime is in whole seconds.                                          *)
(***************************************************************************)
EXTENDS Integers, Sequences, FiniteSets, TLC

\* ---- bounds of the model
MaxClock == 4        \* the wall clock runs over 0..MaxClock ticks
TicksPerSec == 2     \* sub-second resolution of the wall clock
MaxSlots == 2        \* capacity of the dict's entry table before it is compacted

\* ---- program constants
PerPage == 10        \* 'per_page': 10
BootstrapHours == 24 \* timedelta(hours=24)

IDs == {"u1", "u2"}
Athletes == {"u1"}   \* the ids that record activities at the remote source
Tokens == {"t1"}
Tomb == "_"          \* an entry slot left behind by del

Min(a, b) == IF a < b THEN a ELSE b

EmptyMap == [x \in {} |-> 0]

\* no bot_data.json on disk
NoFile == [file |-> "absent", keys |-> <<>>, athlete_tokens |-> EmptyMap, last_checked |-> EmptyMap]

\* bot_data.json truncated by open(..., 'w') and not, or not wholly, written
TornFile == [file |-> "torn", keys |-> <<>>, athlete_tokens |-> EmptyMap, last_checked |-> EmptyMap]

Put(f, k, v) == [x \in DOMAIN f \cup {k} |-> IF x = k THEN v ELSE f[x]]

\* a del statement that deletes nothing
DelNothing(f, k) == f

\* del d[k]
Del(f, k) == [x \in DOMAIN f \ {k} |-> f[x]]

VARIABLES
    clock,           \* the wall clock, in ticks
    samePath,        \* whether load_data's absolute path names the file save_data writes
    entries,         \* athlete_tokens: the dict's entry table (insertion order, Tomb = deleted)
    athlete_tokens,  \* athlete_tokens: id -> access token
    last_checked,    \* last_checked: id -> watermark (ticks)
    disk,            \* bot_data.json: [file, keys, athlete_tokens, last_checked]
    pc,              \* "down" | "notstarted" | "sleep" | "fetch" | "post" | "failed"
    cur,             \* athlete_id of the loop iteration in progress
    after,           \* 'after' parameter of the fetch in flight (seconds)
    batch,           \* activities of the response still to be posted (head is in flight)
    sent,            \* activities posted so far in this iteration
    it_used,         \* dict iterator: size of the dict when the iterator was made
    it_pos,          \* dict iterator: next entry slot to look at
    it_len,          \* dict iterator: items it still expects
    activities,      \* the remote source: the activities [owner, st] it holds
    owed,            \* the activities that started after their user's watermark
    delivered,       \* per activity: "never" | "once" | "again"
    raised,          \* ids whose iteration raised in the current cycle
    loops            \* number of live tasks of the loop check_activities

vars == <<clock, samePath, entries, athlete_tokens, last_checked, disk, pc, cur, after,
          batch, sent, it_used, it_pos, it_len, activities, owed, delivered, raised,
          loops>>

mem == <<entries, athlete_tokens, last_checked>>
iter == <<it_used, it_pos, it_len>>
cycle == <<cur, after, batch, sent, it_used, it_pos, it_len, raised>>
world == <<clock, samePath, activities, owed, delivered>>

\* ---- time conversions
\* int(): truncation toward zero
IntTrunc(x, d) == IF x >= 0 THEN x \div d ELSE -((-x) \div d)

\* int(datetime.fromisoformat(last_check).timestamp())
Timestamp(ticks) == IntTrunc(ticks, TicksPerSec)

BootstrapTicks == BootstrapHours * 3600 * TicksPerSec

\* lines 126-130: the time window of a fetch
AfterTimestamp(lc, athlete_id, now) ==
    IF athlete_id \in DOMAIN lc
    THEN Timestamp(lc[athlete_id])
    ELSE Timestamp(now - BootstrapTicks)

\* ---- the dict athlete_tokens
LiveKeys(es) == {es[i] : i \in DOMAIN es} \ {Tomb}

RECURSIVE Compact(_)
Compact(es) ==
    IF es = <<>> THEN <<>>
    ELSE IF Head(es) = Tomb THEN Compact(Tail(es))
    ELSE <<Head(es)>> \o Compact(Tail(es))

\* d[k] = v: an existing key keeps its slot; a new key is appended, after the
\* table was compacted if it was full
EntriesSet(es, k) ==
    IF k \in LiveKeys(es) THEN es
    ELSE IF Len(es) >= MaxSlots THEN Append(Compact(es), k)
    ELSE Append(es, k)

\* del d[k]
EntriesDel(es, k) == [i \in DOMAIN es |-> IF es[i] = k THEN Tomb ELSE es[i]]

\* first live slot at or after position p, 0 if none
NextLive(es, p) ==
    LET live == {i \in DOMAIN es : i >= p /\ es[i] # Tomb}
    IN IF live = {} THEN 0 ELSE CHOOSE i \in live : \A j \in live : i <= j

\* next() of the dict's item iterator
IterNext(es, used, pos, len) ==
    LET i == NextLive(es, pos) IN
    IF used # Cardinality(LiveKeys(es)) THEN [kind |-> "error", key |-> Tomb, pos |-> pos, len |-> len]
    ELSE IF i = 0 THEN [kind |-> "stop", key |-> Tomb, pos |-> pos, len |-> len]
    ELSE IF len = 0 THEN [kind |-> "error", key |-> Tomb, pos |-> pos, len |-> len]
    ELSE [kind |-> "item", key |-> es[i], pos |-> i + 1, len |-> len - 1]

\* ---- persistence
\* save_data: json.dump of both stores into bot_data.json
SavedRecord(es, toks, lc) ==
    [file |-> "whole", keys |-> Compact(es), athlete_tokens |-> toks, last_checked |-> lc]

\* how a call of save_data can end: the record is written, or the write raises
\* (OSError: disk full, I/O error) after the open of line 53 truncated the file
SaveOutcomes == {"saved", "torn"}

\* lines 53-54: the file a call of save_data leaves
Written(o, record) == IF o = "saved" THEN record ELSE TornFile

\* the file load_data opens
LoadFile == IF samePath THEN disk ELSE NoFile


\* ---- the remote source
\* an athlete records at most one activity per start second
Matching(athlete_id, since) ==
    {a \in activities : a.owner = athlete_id /\ a.st > since}

\* the pages a 200 response can carry: per_page of the matching activities, in any order
Pages(S) ==
    LET n == Min(PerPage, Cardinality(S))
    IN {p \in [1..n -> S] : \A i, j \in 1..n : i # j => p[i] # p[j]}

Bump(d) == IF d = "never" THEN "once" ELSE "again"

Init ==
    /\ clock = 0
    /\ samePath \in BOOLEAN
    /\ entries = <<>>
    /\ athlete_tokens = EmptyMap
    /\ last_checked = EmptyMap
    /\ disk = NoFile
    /\ pc = "notstarted"
    /\ cur = Tomb
    /\ after = 0
    /\ batch = <<>>
    /\ sent = <<>>
    /\ it_used = 0
    /\ it_pos = 1
    /\ it_len = 0
    /\ activities = {}
    /\ owed = {}
    /\ delivered = EmptyMap
    /\ raised = {}
    /\ loops = 0

\* ---- the cycle's control flow
IdleCycle ==
    /\ cur' = Tomb /\ after' = 0 /\ batch' = <<>> /\ sent' = <<>>
    /\ it_used' = 0 /\ it_pos' = 1 /\ it_len' = 0 /\ raised' = {}

\* a registration that stores the start of the bootstrap window instead
RegistrationWatermarkBootstrap(now) == now - BootstrapTicks

\* line 72: the watermark a registration stores
RegistrationWatermark(now) == now

\* line 114: the watermark a completed iteration stores
CheckedWatermark(now) == now

\* the for statement of line 107 asks the iterator for the next athlete; lc is
\* last_checked as the iteration just ended leaves it, rs the ids that raised so far
NextAthlete(lc, rs) ==
    LET r == IterNext(entries, it_used, it_pos, it_len) IN
    /\ last_checked' = lc
    /\ UNCHANGED <<entries, athlete_tokens>>
    /\ CASE r.kind = "item" ->
              \* next iteration: get_recent_activities runs up to its request
              /\ pc' = "fetch"
              /\ cur' = r.key
              /\ after' = AfterTimestamp(lc, r.key, clock)
              /\ it_pos' = r.pos /\ it_len' = r.len /\ it_used' = it_used
              /\ batch' = <<>> /\ sent' = <<>> /\ raised' = rs
              /\ disk' = disk
              /\ loops' = loops
         [] r.kind = "stop" ->
              \* line 119: save_data at the end of the cycle; the OSError of a
              \* failed write is one tasks.loop retries after, the task lives on
              /\ pc' = "sleep"
              /\ IdleCycle
              /\ \E o \in SaveOutcomes :
                   disk' = Written(o, SavedRecord(entries, athlete_tokens, lc))
              /\ loops' = loops
         [] OTHER ->
              \* RuntimeError: dictionary changed size / keys changed during
              \* iteration; raised outside the try, the task of the loop ends
              /\ pc' = "failed"
              /\ IdleCycle
              /\ disk' = disk
              /\ loops' = loops - 1

\* a handler that does not match what was raised
ExceptionNotCaught == FALSE

\* lines 116-117: except Exception catches what the fetch or a delivery raises
ExceptionCaught == TRUE

IterationRaises ==
    IF ExceptionCaught
    THEN NextAthlete(last_checked, raised \cup {cur})
    ELSE /\ pc' = "failed" /\ IdleCycle
         /\ loops' = loops - 1
         /\ UNCHANGED <<entries, athlete_tokens, last_checked, disk>>

\* lines 110-114 once every activity of the response is posted
IterationCompletes == NextAthlete(Put(last_checked, cur, CheckedWatermark(clock)), raised)

\* ---- commands
\* an activity is owed to its user for as long as the registration stands that
\* was in force when it became available: not after a removal or a new set_token
Disown(athlete_id) == {a \in owed : a.owner # athlete_id}

\* lines 73-74: what the command answers
SetTokenReply(o) == IF o = "saved" THEN "set" ELSE "raised"

\* lines 68-74; o is how the save_data of line 73 ends: when it raises, line
\* 74 is not reached and the command ends with the exception
set_token(athlete_id, access_token, o) ==
    /\ pc # "down"
    /\ entries' = EntriesSet(entries, athlete_id)
    /\ athlete_tokens' = Put(athlete_tokens, athlete_id, access_token)
    /\ last_checked' = Put(last_checked, athlete_id, RegistrationWatermark(clock))
    /\ disk' = Written(o, SavedRecord(entries', athlete_tokens', last_checked'))
    /\ owed' = Disown(athlete_id)
    /\ UNCHANGED <<clock, samePath, activities, delivered, pc, cycle, loops>>

\* a removal that keeps the watermark of the id
KeepsWatermark(lc, athlete_id) == lc

\* line 81: del self.last_checked[athlete_id]
DelWatermark(lc, athlete_id) == Del(lc, athlete_id)

\* lines 79-85: what the command answers; a KeyError of line 81 or an
\* exception of save_data ends it before line 83
RemoveReply(toks, lc, athlete_id, o) ==
    CASE athlete_id \notin DOMAIN toks -> "notfound"
      [] athlete_id \in DOMAIN lc /\ o = "saved" -> "removed"
      [] OTHER -> "raised"

\* lines 76-85; o is how the save_data of line 82 ends
remove_athlete(athlete_id, o) ==
    /\ pc # "down"
    /\ IF athlete_id \in DOMAIN athlete_tokens
       THEN /\ entries' = EntriesDel(entries, athlete_id)
            /\ athlete_tokens' = Del(athlete_tokens, athlete_id)
            /\ IF athlete_id \in DOMAIN last_checked
               THEN /\ last_checked' = DelWatermark(last_checked, athlete_id)
                    /\ disk' = Written(o, SavedRecord(entries', athlete_tokens', last_checked'))
               ELSE \* KeyError at line 81
                    UNCHANGED <<last_checked, disk>>
            /\ owed' = Disown(athlete_id)
       ELSE \* line 85
            UNCHANGED <<entries, athlete_tokens, last_checked, disk, owed>>
    /\ UNCHANGED <<clock, samePath, activities, delivered, pc, cycle, loops>>

\* a guard that never sees the loop running
IsRunningNever == FALSE

\* line 58: self.check_activities.is_running()
IsRunning == pc \in {"sleep", "fetch", "post"}

\* lines 56-59; start() makes a new task of the loop, which waits for its tick
on_ready ==
    /\ pc # "down"
    /\ IF IsRunning
       THEN UNCHANGED <<pc, cycle, loops>>
       ELSE /\ pc' = "sleep" /\ IdleCycle /\ loops' = loops + 1
    /\ UNCHANGED <<mem, disk, world>>

\* ---- the poll cycle
\* lines 97-109: a tick of tasks.loop, up to the request of the first fetch
check_activities ==
    /\ pc = "sleep"
    /\ \E channel \in BOOLEAN :
         IF athlete_tokens = EmptyMap \/ ~channel
         THEN UNCHANGED <<pc, cycle, mem, disk>>
         ELSE LET n == Cardinality(LiveKeys(entries))
                  r == IterNext(entries, n, 1, n) IN
              /\ pc' = "fetch"
              /\ cur' = r.key
              /\ after' = AfterTimestamp(last_checked, r.key, clock)
              /\ it_used' = n /\ it_pos' = r.pos /\ it_len' = r.len
              /\ batch' = <<>> /\ sent' = <<>> /\ raised' = {}
              /\ UNCHANGED <<mem, disk>>
    /\ UNCHANGED <<world, loops>>

\* lines 139-142: status 200; the response carries page
FetchOk ==
    /\ pc = "fetch"
    /\ \E page \in Pages(Matching(cur, after)) :
         IF page = <<>>
         THEN IterationCompletes
         ELSE /\ pc' = "post" /\ batch' = page /\ sent' = <<>>
              /\ UNCHANGED <<cur, after, iter, raised, mem, disk, loops>>
    /\ UNCHANGED <<world>>

\* lines 143-145: any other status; 401 and 403 reject the credential
FetchStatus(status) ==
    /\ pc = "fetch"
    /\ status # 200
    /\ IterationCompletes
    /\ UNCHANGED <<world>>

\* line 139 raises (network failure)
FetchRaises ==
    /\ pc = "fetch"
    /\ IterationRaises
    /\ UNCHANGED <<world>>

\* line 111 / 220: channel.send succeeds
PostOk ==
    /\ pc = "post"
    /\ delivered' = [delivered EXCEPT ![Head(batch)] = Bump(@)]
    /\ IF Tail(batch) # <<>>
       THEN /\ batch' = Tail(batch) /\ sent' = Append(sent, Head(batch))
            /\ UNCHANGED <<pc, cur, after, iter, raised, mem, disk, loops>>
       ELSE IterationCompletes
    /\ UNCHANGED <<clock, samePath, activities, owed>>

\* line 111 raises (rendering or channel.send fails)
PostRaises ==
    /\ pc = "post"
    /\ IterationRaises
    /\ UNCHANGED <<world>>

\* ---- the environment
Tick ==
    /\ clock < MaxClock
    /\ clock' = clock + 1
    /\ UNCHANGED <<samePath, activities, owed, delivered, mem, disk, pc, cycle,
                   loops>>

\* the remote source gains an activity of athlete_id that started at second st
\* (second 0 is the epoch of the model: no watermark is earlier); it is owed when
\* it started after the watermark athlete_id had at that moment
Upload(athlete_id, st) ==
    /\ LET a == [owner |-> athlete_id, st |-> st] IN
       /\ a \notin activities
       /\ activities' = activities \cup {a}
       /\ delivered' = Put(delivered, a, "never")
       /\ owed' = IF /\ athlete_id \in DOMAIN athlete_tokens
                     /\ athlete_id \in DOMAIN last_checked
                     /\ st * TicksPerSec > last_checked[athlete_id]
                  THEN owed \cup {a} ELSE owed
    /\ UNCHANGED <<clock, samePath, mem, disk, pc, cycle, loops>>

\* the process is killed; saving: it is killed inside a call of save_data (the
\* one of a command or of the cycle), between the open and the end of json.dump
Crash(saving) ==
    /\ pc # "down"
    /\ pc' = "down"
    /\ IdleCycle
    /\ entries' = <<>> /\ athlete_tokens' = EmptyMap /\ last_checked' = EmptyMap
    /\ owed' = {}
    /\ loops' = 0
    /\ disk' = IF saving THEN TornFile ELSE disk
    /\ UNCHANGED <<clock, samePath, activities, delivered>>

\* lines 15-45: the process starts again; __init__ calls load_data
load_data ==
    /\ pc = "down"
    /\ CASE LoadFile.file = "absent" ->
              \* FileNotFoundError: the stores stay as __init__ made them
              /\ pc' = "notstarted"
              /\ UNCHANGED mem
         [] LoadFile.file = "torn" ->
              \* json.load raises JSONDecodeError, which line 44 does not catch:
              \* __init__ raises and the process ends again
              /\ UNCHANGED <<pc, mem>>
         [] OTHER ->
              /\ pc' = "notstarted"
              /\ entries' = LoadFile.keys
              /\ athlete_tokens' = LoadFile.athlete_tokens
              /\ last_checked' = LoadFile.last_checked
    /\ UNCHANGED <<disk, cycle, world, loops>>

Statuses == {401, 403, 429, 500}

Running ==
    \/ \E i \in IDs, t \in Tokens, o \in SaveOutcomes : set_token(i, t, o)
    \/ \E i \in IDs, o \in SaveOutcomes : remove_athlete(i, o)
    \/ on_ready
    \/ check_activities
    \/ \E s \in Statuses : FetchStatus(s)
    \/ FetchOk
    \/ FetchRaises
    \/ PostOk
    \/ PostRaises
    \/ Tick
    \/ \E i \in Athletes, st \in 1..Timestamp(clock) : Upload(i, st)

Next ==
    \/ Running
    \/ \E saving \in BOOLEAN : Crash(saving)
    \/ load_data

Spec == Init /\ [][Next]_vars

\* executions without a process crash (load_data never runs again, so the path
\* it reads is immaterial)
InitNoCrash == Init /\ samePath
SpecNoCrash == InitNoCrash /\ [][Running]_vars

\* ---- properties
Owner(a) == a.owner
StartTime(a) == a.st

\* line 107: the ids a cycle fetches for
Polled == DOMAIN athlete_tokens

\* the fetch of athlete_id issued now would ask for activity a
Fetchable(lc, toks, a) ==
    /\ Owner(a) \in DOMAIN toks
    /\ StartTime(a) > AfterTimestamp(lc, Owner(a), clock)

\* C1: an activity that became available with a startTime later than the
\* watermark of its (still registered) user is never skipped: until it is
\* delivered, the user's watermark stays below its startTime, so that a later
\* fetch still asks for it.
C1_NeverSkipped ==
    \A a \in owed :
        \/ delivered[a] # "never"
        \/ /\ Owner(a) \in DOMAIN last_checked
           /\ StartTime(a) * TicksPerSec > last_checked[Owner(a)]

\* C2: the persisted watermark of a user that stays in the persisted record
\* never decreases, whatever the fetches and deliveries do.
C2_PersistedWatermarkMonotone ==
    [][\A u \in DOMAIN disk.last_checked \cap DOMAIN disk'.last_checked :
          disk'.last_checked[u] >= disk.last_checked[u]]_vars

\* a cycle is in progress for a user whose persisted watermark was advanced
\* before and whose watermark in memory has advanced again
C2_Witness ==
    /\ pc \in {"fetch", "post"}
    /\ \E u \in DOMAIN disk.last_checked \cap DOMAIN last_checked :
          /\ 0 < disk.last_checked[u]
          /\ disk.last_checked[u] < last_checked[u]

\* C3: when the k-th delivery of an iteration fails (k >= 2), exactly the
\* k-1 activities before it were delivered and the user's watermark at the end
\* of the iteration is the startTime of the last activity that was delivered.
C3_WatermarkAtLastDelivered ==
    [][(PostRaises /\ Len(sent) >= 1) =>
          /\ delivered' = delivered
          /\ \A i \in 1..Len(sent) : delivered[sent[i]] # "never"
          /\ cur \in DOMAIN last_checked'
          /\ last_checked'[cur] = StartTime(sent[Len(sent)]) * TicksPerSec]_vars

\* C4: without a process crash no activity is delivered more than once.
C4_NeverReposted == \A a \in activities : delivered[a] # "again"

\* C5: within one iteration no activity is delivered after an activity with a
\* later startTime.
C5_AscendingDelivery ==
    [][PostOk => \A i \in 1..Len(sent) : StartTime(sent[i]) <= StartTime(Head(batch))]_vars

\* C6: a fetch answered 401/403 for a user that is still registered leaves
\* the user's watermark unchanged, sends no notification, and takes the user
\* out of the ids later cycles fetch for.
C6_AuthRejectedSuspends ==
    [][((\E s \in {401, 403} : FetchStatus(s)) /\ cur \in Polled) =>
          /\ last_checked'[cur] = last_checked[cur]
          /\ delivered' = delivered
          /\ cur \notin Polled']_vars

\* C7: a fetch that fails transiently (429, another non-2xx status, or a
\* network failure) for a user that is still registered does not advance the
\* user's watermark, so the next fetch asks with the same since.
C7_TransientKeepsWatermark ==
    [][(((\E s \in {429, 500} : FetchStatus(s)) \/ FetchRaises) /\ cur \in Polled) =>
          /\ last_checked'[cur] = last_checked[cur]
          /\ AfterTimestamp(last_checked', cur, clock)
                = AfterTimestamp(last_checked, cur, clock)]_vars

\* C8: every id with a watermark has a credential, in memory and in the
\* persisted record.
C8_WatermarkHasCredential ==
    /\ DOMAIN last_checked \subseteq DOMAIN athlete_tokens
    /\ DOMAIN disk.last_checked \subseteq DOMAIN disk.athlete_tokens

Uncovered(a) ==
    /\ delivered[a] # "never"
    /\ Owner(a) \in DOMAIN disk.athlete_tokens
    /\ Owner(a) \in DOMAIN disk.last_checked
    /\ StartTime(a) * TicksPerSec > disk.last_checked[Owner(a)]

\* C10: after a crash that follows a delivery and precedes the persisting of
\* a watermark that covers it, the restarted process still monitors the user
\* and its next fetch asks for the activity again.
C10_RefetchedAfterRestart ==
    [][load_data =>
          \A a \in activities :
              Uncovered(a) => Fetchable(last_checked', athlete_tokens', a)]_vars

\* C11: a restart does not drop a registered user: every id the persisted
\* record holds has, once load_data has run, its credential and its persisted
\* watermark in the in-memory stores
C11_RestartKeepsRegistered ==
    [][load_data =>
          \A u \in DOMAIN disk.athlete_tokens :
             /\ u \in DOMAIN athlete_tokens'
             /\ athlete_tokens'[u] = disk.athlete_tokens[u]
             /\ u \in DOMAIN disk.last_checked =>
                   /\ u \in DOMAIN last_checked'
                   /\ last_checked'[u] = disk.last_checked[u]]_vars

\* the state a successful set_token of athlete_id leaves
JustRegistered(athlete_id) ==
    /\ athlete_id \in DOMAIN athlete_tokens
    /\ athlete_id \in DOMAIN last_checked
    /\ last_checked[athlete_id] = RegistrationWatermark(clock)
    /\ disk = SavedRecord(entries, athlete_tokens, last_checked)

\* C12: remove_athlete right after set_token of the same id leaves no entry
\* for the id in either store, in memory and in the persisted record, and a
\* removal of the id that follows answers not found
C12_RegisterThenRemove ==
    [][\A i \in IDs :
          JustRegistered(i) /\ remove_athlete(i, "saved") =>
             /\ i \notin LiveKeys(entries')
             /\ i \notin DOMAIN athlete_tokens'
             /\ i \notin DOMAIN last_checked'
             /\ disk'.file = "whole"
             /\ i \notin DOMAIN disk'.athlete_tokens
             /\ i \notin DOMAIN disk'.last_checked
             /\ RemoveReply(athlete_tokens', last_checked', i, "saved") = "notfound"]_vars

\* the only id ever registered has been removed again, and that is persisted
C12_Witness ==
    /\ entries = <<Tomb>>
    /\ athlete_tokens = EmptyMap
    /\ last_checked = EmptyMap
    /\ disk = SavedRecord(entries, EmptyMap, EmptyMap)

C14_BootstrapWatermark ==
    /\ [][\A i \in IDs, t \in Tokens, o \in SaveOutcomes :
             i \notin DOMAIN athlete_tokens /\ set_token(i, t, o) =>
                last_checked'[i] = clock - BootstrapTicks]_vars
    /\ [][pc' = "fetch" /\ <<pc, cur, it_pos>> # <<pc', cur', it_pos'>> =>
             /\ cur' \in DOMAIN last_checked'
             /\ after' = Timestamp(last_checked'[cur'])]_vars

\* C15: when the write of save_data fails in set_token, in remove_athlete or
\* at the end of a cycle, the in-memory stores are as they were before the
\* operation, and the operation does not answer success
C15_FailedWriteRollsBack ==
    /\ [][\A i \in IDs, t \in Tokens :
             set_token(i, t, "torn") =>
                UNCHANGED mem /\ SetTokenReply("torn") = "raised"]_vars
    /\ [][\A i \in IDs :
             i \in DOMAIN athlete_tokens /\ remove_athlete(i, "torn") =>
                /\ UNCHANGED mem
                /\ RemoveReply(athlete_tokens, last_checked, i, "torn") = "raised"]_vars
    /\ [][(pc \in {"fetch", "post"}) /\ pc' = "sleep" /\ disk'.file = "torn" =>
             UNCHANGED mem]_vars

\* C16: remove_athlete of an id that is not registered answers not found and
\* leaves both stores and the persisted record as they are; of a registered id
\* it answers success when save_data succeeds, and when it answers success
\* credential and watermark are deleted and the persisted record is the result
C16_RemoveFrame ==
    [][\A i \in IDs, o \in SaveOutcomes :
          remove_athlete(i, o) =>
             LET r == RemoveReply(athlete_tokens, last_checked, i, o) IN
             /\ i \notin DOMAIN athlete_tokens =>
                   r = "notfound" /\ UNCHANGED <<mem, disk>>
             /\ i \in DOMAIN athlete_tokens /\ o = "saved" => r = "removed"
             /\ r = "removed" =>
                   /\ i \notin LiveKeys(entries')
                   /\ i \notin DOMAIN athlete_tokens'
                   /\ i \notin DOMAIN last_checked'
                   /\ \A u \in IDs \ {i} :
                         /\ u \in DOMAIN athlete_tokens <=> u \in DOMAIN athlete_tokens'
                         /\ u \in DOMAIN last_checked <=> u \in DOMAIN last_checked'
                   /\ disk' = SavedRecord(entries', athlete_tokens', last_checked')]_vars

\* one of two registered ids has been removed and the record without it persisted
C16_Witness ==
    /\ Tomb \in {entries[i] : i \in DOMAIN entries}
    /\ athlete_tokens # EmptyMap
    /\ DOMAIN last_checked = DOMAIN athlete_tokens
    /\ disk = SavedRecord(entries, athlete_tokens, last_checked)

\* C17: when the cycle goes on to its next user, the watermark of the user it
\* leaves is in the persisted record
C17_PersistedPerUser ==
    [][/\ pc \in {"fetch", "post"}
       /\ pc' = "fetch"
       /\ cur' # cur
       /\ disk.file = "whole"
       /\ cur \in DOMAIN last_checked'
       => /\ cur \in DOMAIN disk'.last_checked
          /\ disk'.last_checked[cur] = last_checked'[cur]]_vars

\* the latest start, in ticks of the clock, among the activities of a response
MaxStartTime(acts) ==
    LET sts == {StartTime(acts[i]) * TicksPerSec : i \in DOMAIN acts}
    IN CHOOSE m \in sts : \A x \in sts : x <= m

\* C18: when the last activity of a response has been delivered, the watermark
\* of the user is the latest start time among the activities of the response
C18_WatermarkIsMaxStart ==
    [][PostOk /\ Tail(batch) = <<>> /\ cur \in Polled /\ disk.file = "whole" =>
          last_checked'[cur] = MaxStartTime(sent \o batch)]_vars

\* C19: a crash, also one inside a call of save_data, leaves the persisted
\* file whole: the previous record or the new one
C19_AtomicWrite ==
    [][(\E saving \in BOOLEAN : Crash(saving)) /\ disk.file # "torn" =>
          disk'.file # "torn"]_vars

\* C20: the loop does not end because of a command that ran while a cycle was
\* suspended; no notification is delivered for an id that is not registered;
\* and no watermark is written for an id that is not registered
C20_CommandsDoNotAbort ==
    /\ [][pc # "failed" => pc' # "failed"]_vars
    /\ [][PostOk => Owner(Head(batch)) \in Polled]_vars
    /\ [][\A u \in IDs :
             u \notin Polled /\ u \notin Polled' /\ u \in DOMAIN last_checked' =>
                u \in DOMAIN last_checked /\ last_checked'[u] = last_checked[u]]_vars

====
